---- MODULE Spec2Model ----
(***************************************************************************)
(* Model of the logging-migration scripts of containerization-assist:      *)
(*   convert_zerolog_to_slog.py, scripts/fix_messagef_simple.py,           *)
(*   fix_pipeline_logging.py, fix_pipeline_logging_v2.py and               *)
(*   fix_security_test_logging.py.                                         *)
(*                                                                         *)
(* A text is a sequence of tokens.  A token is a lexeme that every regular *)
(* expression of the scripts treats as a unit: a whitespace character, a   *)
(* punctuation character, a format verb, or a word (a run of \w).  The     *)
(* regular expressions are translated position by position, with Python's *)
(* leftmost / greedy / backtracking order.                                 *)
(***************************************************************************)
EXTENDS Integers, Sequences, FiniteSets, TLC

(***************************************************************************)
(* Bounds of the model.                                                    *)
(***************************************************************************)
MaxSegs == 2
MaxRuns == 2

(***************************************************************************)
(* Tokens and character classes.                                           *)
(***************************************************************************)
Q == "\""
NL == "\n"
TAB == "\t"
SP == " "

Space == {SP, TAB, NL}
NonWord == Space \cup {".", "(", ")", ",", Q, ":", ";", "{", "}", "[", "]",
                       "%w", "%s", "%d", ":=", "//", "="}
Levels == {"Debug", "Info", "Warn", "Error"}

IsSpace(t) == t \in Space
IsWord(t) == t \notin NonWord

At(s, i) == IF i >= 1 /\ i <= Len(s) THEN s[i] ELSE "<eof>"
Slice(s, a, b) == IF a > b THEN <<>> ELSE SubSeq(s, a, b)

\* The literal lit occurs in s at position i.
LitAt(s, i, lit) ==
    /\ i >= 1
    /\ i + Len(lit) - 1 <= Len(s)
    /\ \A k \in 1..Len(lit) : s[i + k - 1] = lit[k]

\* Python's "lit in s".
Contains(s, lit) == \E i \in 1..Len(s) : LitAt(s, i, lit)

\* First position >= i whose token is not whitespace (Len(s)+1 at the end): \s*
SkipSpace(s, i) ==
    LET stops == {j \in i..Len(s) : ~IsSpace(s[j])}
    IN  IF stops = {} THEN Len(s) + 1
        ELSE CHOOSE j \in stops : \A k \in stops : j <= k

\* First position >= i whose token is not a word: \w*
SkipWord(s, i) ==
    LET stops == {j \in i..Len(s) : ~IsWord(s[j])}
    IN  IF stops = {} THEN Len(s) + 1
        ELSE CHOOSE j \in stops : \A k \in stops : j <= k

\* First position >= i holding token t (Len(s)+1 when there is none): [^t]*
FindTok(s, i, t) ==
    LET hits == {j \in i..Len(s) : s[j] = t}
    IN  IF hits = {} THEN Len(s) + 1
        ELSE CHOOSE j \in hits : \A k \in hits : j <= k

\* str.strip(), str.rstrip(')')
RECURSIVE LStrip(_)
LStrip(s) == IF s # <<>> /\ IsSpace(Head(s)) THEN LStrip(Tail(s)) ELSE s
RECURSIVE RStrip(_)
RStrip(s) ==
    IF s # <<>> /\ IsSpace(s[Len(s)]) THEN RStrip(Slice(s, 1, Len(s) - 1)) ELSE s
Strip(s) == RStrip(LStrip(s))

RECURSIVE Concat(_)
Concat(ss) == IF ss = <<>> THEN <<>> ELSE Head(ss) \o Concat(Tail(ss))

\* sep.join(parts)
RECURSIVE Join(_, _)
Join(sep, parts) ==
    IF parts = <<>> THEN <<>>
    ELSE IF Len(parts) = 1 THEN parts[1]
    ELSE parts[1] \o sep \o Join(sep, Tail(parts))

(***************************************************************************)
(* re.sub / re.findall over a table of matches: m[i] is the match of the   *)
(* pattern that starts at position i, [ok, end, rep] with end the position *)
(* after the match and rep the replacement text.  No pattern of the        *)
(* scripts matches the empty string.                                       *)
(***************************************************************************)
NoMatch == [ok |-> FALSE]

RECURSIVE SubFrom(_, _, _)
SubFrom(s, m, i) ==
    IF i > Len(s) THEN <<>>
    ELSE IF m[i].ok THEN m[i].rep \o SubFrom(s, m, m[i].end)
    ELSE <<s[i]>> \o SubFrom(s, m, i + 1)

RECURSIVE FindAllFrom(_, _, _)
FindAllFrom(s, m, i) ==
    IF i > Len(s) THEN <<>>
    ELSE IF m[i].ok THEN <<m[i]>> \o FindAllFrom(s, m, m[i].end)
    ELSE FindAllFrom(s, m, i + 1)

(***************************************************************************)
(* convert_zerolog_to_slog.py                                              *)
(***************************************************************************)

\* One chain segment  \s*\.\s*\w+\([^)]*\)  starting at p: the position after
\* it, or 0 when there is none.
SegEnd(s, p) ==
    LET d == SkipSpace(s, p)
        w == SkipSpace(s, d + 1)
        o == SkipWord(s, w)
        c == FindTok(s, o + 1, ")")
    IN  IF At(s, d) = "." /\ o > w /\ At(s, o) = "(" /\ c <= Len(s)
        THEN c + 1 ELSE 0

\* The greedy chain  (?:segment)*  from p: the positions after 0, 1, 2, ...
\* segments, in that order.
RECURSIVE ChainEnds(_, _)
ChainEnds(s, p) ==
    IF SegEnd(s, p) = 0 THEN <<p>> ELSE <<p>> \o ChainEnds(s, SegEnd(s, p))

\* The terminator  \s*\.\s*Msg\("([^"]*)"\)  starting at p.
MsgTerm(s, p) ==
    LET d == SkipSpace(s, p)
        w == SkipSpace(s, d + 1)
        c == FindTok(s, w + 3, Q)
    IN  IF /\ At(s, d) = "."
           /\ LitAt(s, w, <<"Msg", "(", Q>>)
           /\ c <= Len(s)
           /\ At(s, c + 1) = ")"
        THEN [ok |-> TRUE, end |-> c + 2, message |-> Slice(s, w + 3, c - 1)]
        ELSE NoMatch

\* (\w+\.)?logger\.(Debug|Info|Warn|Error)\(\)  at p, with or without the
\* optional prefix: the position after it, or 0.
AnchorEnd(s, p, withPrefix) ==
    LET w == SkipWord(s, p)
        l == IF withPrefix THEN w + 1 ELSE p
    IN  IF /\ withPrefix => (w > p /\ At(s, w) = ".")
           /\ At(s, l) = "logger"
           /\ At(s, l + 1) = "."
           /\ At(s, l + 2) \in Levels
           /\ At(s, l + 3) = "("
           /\ At(s, l + 4) = ")"
        THEN l + 5 ELSE 0

\* The largest k such that the terminator matches at ends[k] (0: none): the
\* greedy chain gives back segments until the terminator matches.
LastTerm(s, ends) ==
    LET good == {k \in 1..Len(ends) : MsgTerm(s, ends[k]).ok}
    IN  IF good = {} THEN 0 ELSE CHOOSE x \in good : \A y \in good : y <= x

\* The optional group (\w+\.)? takes part in a match at p exactly when the
\* anchor matches with it: with the prefix the token before the level is
\* "logger" and the one two places before it is a "."; without the prefix
\* that place holds "logger" itself, so the two ways exclude each other.
HasPrefix(s, p) == AnchorEnd(s, p, TRUE) # 0

\* pattern (line 11) at position i: the groups of the match whose anchor
\* ends at a, whose chain may end at the positions ends, and whose
\* terminator t starts at ends[k].
PatternGroups(s, i, a, ends, k, t) ==
    [ok |-> TRUE, end |-> t.end,
     indent |-> Slice(s, i, SkipSpace(s, i) - 1),
     prefix |-> Slice(s, SkipSpace(s, i), a - 6),
     level |-> s[a - 3],
     chain |-> Slice(s, a, ends[k] - 1),
     message |-> t.message]

PatternTerm(s, i, a, ends, k) ==
    IF k = 0 THEN NoMatch
    ELSE PatternGroups(s, i, a, ends, k, MsgTerm(s, ends[k]))

PatternChain(s, i, a, ends) == PatternTerm(s, i, a, ends, LastTerm(s, ends))

PatternAnchor(s, i, a) ==
    IF a = 0 THEN NoMatch ELSE PatternChain(s, i, a, ChainEnds(s, a))

PatternAt(s, i) ==
    PatternAnchor(s, i,
        AnchorEnd(s, SkipSpace(s, i), HasPrefix(s, SkipSpace(s, i))))

\* kv_pattern (line 21)  \.\s*(\w+)\(([^)]*)\)  at position i.
KvAt(s, i) ==
    LET w == SkipSpace(s, i + 1)
        o == SkipWord(s, w)
        c == FindTok(s, o + 1, ")")
    IN  IF At(s, i) = "." /\ o > w /\ At(s, o) = "(" /\ c <= Len(s)
        THEN [ok |-> TRUE, end |-> c + 1,
              method |-> Slice(s, w, o - 1), value |-> Slice(s, o + 1, c - 1)]
        ELSE NoMatch

KvFindAll(chain) ==
    FindAllFrom(chain, [i \in 1..Len(chain) |-> KvAt(chain, i)], 1)

\* re.match(r'"([^"]+)",\s*(.+)', value) (lines 29, 36, 45, 51): '.' does
\* not match a newline, and \s* gives back whitespace when nothing else is
\* left for (.+).
KeyValueMatch(value) ==
    LET c == FindTok(value, 2, Q)
        w == SkipSpace(value, c + 2)
        back == {j \in (c + 2)..Len(value) : value[j] # NL}
        v == IF w <= Len(value) THEN w
             ELSE CHOOSE x \in back : \A y \in back : y <= x
        e == FindTok(value, v, NL)
    IN  IF /\ At(value, 1) = Q
           /\ c > 2
           /\ c <= Len(value)
           /\ At(value, c + 1) = ","
           /\ (w <= Len(value) \/ back # {})
        THEN [ok |-> TRUE, key |-> Slice(value, 2, c - 1),
              val |-> Strip(Slice(value, v, e - 1))]
        ELSE NoMatch

KeyedMethods == {<<"Str">>, <<"Int">>, <<"Bool">>, <<"Interface">>, <<"Any">>}

\* The loop body of lines 26-55: the arguments one segment contributes.
FieldArgs(kv) ==
    IF kv.method \in KeyedMethods
    THEN IF KeyValueMatch(kv.value).ok
         THEN <<<<Q>> \o KeyValueMatch(kv.value).key \o <<Q, ",", SP>>
                 \o KeyValueMatch(kv.value).val>>
         ELSE <<>>
    ELSE IF kv.method = <<"Err">>
    THEN <<<<Q, "error", Q, ",", SP>> \o kv.value>>
    ELSE <<>>

RECURSIVE CollectArgs(_)
CollectArgs(kvs) ==
    IF kvs = <<>> THEN <<>> ELSE FieldArgs(Head(kvs)) \o CollectArgs(Tail(kvs))

\* A faulty variant of RenderCall: the arguments follow the message on the
\* same line.
RenderCallInline(indent, prefix, level, message, args) ==
    LET head == indent \o prefix \o <<"logger", ".", level, "(", Q>>
                  \o message \o <<Q>>
    IN  IF args # <<>> THEN head \o <<",", SP>> \o Join(<<",", SP>>, args) \o <<")">>
        ELSE head \o <<")">>

\* Lines 57-62: the flat call built from the collected arguments.
RenderCall(indent, prefix, level, message, args) ==
    LET sep == <<",", NL>> \o indent \o <<TAB>>
        head == indent \o prefix \o <<"logger", ".", level, "(", Q>>
                  \o message \o <<Q>>
    IN  IF args # <<>> THEN head \o sep \o Join(sep, args) \o <<")">>
        ELSE head \o <<")">>

replace_match(m) ==
    RenderCall(m.indent, m.prefix, m.level, m.message,
               CollectArgs(KvFindAll(m.chain)))

PatternSub(m) ==
    IF m.ok THEN [ok |-> TRUE, end |-> m.end, rep |-> replace_match(m)]
    ELSE NoMatch

PatternSubAt(s, i) == PatternSub(PatternAt(s, i))

\* simple_pattern (line 68) and its replacement \1\2logger.\3("\4"), for
\* the anchor that ends at a and the terminator t.
SimpleSub(s, i, a, t) ==
    IF ~t.ok THEN NoMatch
    ELSE [ok |-> TRUE, end |-> t.end,
          rep |-> Slice(s, i, a - 3) \o <<"(", Q>> \o t.message \o <<Q, ")">>]

SimpleAnchor(s, i, a) ==
    IF a = 0 THEN NoMatch ELSE SimpleSub(s, i, a, MsgTerm(s, a))

SimpleSubAt(s, i) ==
    SimpleAnchor(s, i,
        AnchorEnd(s, SkipSpace(s, i), HasPrefix(s, SkipSpace(s, i))))

\* Line 65 and line 69: the two substitutions.
PatternPass(content) ==
    SubFrom(content, [i \in 1..Len(content) |-> PatternSubAt(content, i)], 1)
SimplePass(content) ==
    SubFrom(content, [i \in 1..Len(content) |-> SimpleSubAt(content, i)], 1)

convert_zerolog_to_slog(content) == SimplePass(PatternPass(content))

\* process_file, line 80: the file needs conversion.
NeedsConversion(content) ==
    Contains(content, <<"logger", ".">>) /\ Contains(content, <<".", "Msg", "(">>)

(***************************************************************************)
(* fix_pipeline_logging.py                                                 *)
(***************************************************************************)
FieldMethods == {"Str", "Int", "Bool", "Err", "Dur"}
Finishers == {"Msg", "Msgf"}

\* (\w+\.logger\.(Info|Debug|Warn|Error))\(\)  at i: the position after it,
\* or 0.
PrefixedAnchorEnd(s, i) ==
    LET w == SkipWord(s, i)
    IN  IF /\ w > i
           /\ LitAt(s, w, <<".", "logger", ".">>)
           /\ At(s, w + 3) \in Levels
           /\ At(s, w + 4) = "("
           /\ At(s, w + 5) = ")"
        THEN w + 6 ELSE 0

\* One element  [\s\n]*\.?(?:Str|Int|Bool|Err|Dur)\([^)]+\)  of the method
\* chain starting at p: the position after it, or 0.
ElementEnd(s, p) ==
    LET d == SkipSpace(s, p)
        n == IF At(s, d) = "." THEN d + 1 ELSE d
        c == FindTok(s, n + 2, ")")
    IN  IF /\ At(s, n) \in FieldMethods
           /\ At(s, n + 1) = "("
           /\ c > n + 2
           /\ c <= Len(s)
        THEN c + 1 ELSE 0

RECURSIVE ElementEnds(_, _)
ElementEnds(s, p) ==
    IF ElementEnd(s, p) = 0 THEN <<>>
    ELSE <<ElementEnd(s, p)>> \o ElementEnds(s, ElementEnd(s, p))

\* \s*\.(Msg|Msgf)\(([^)]+)\)  starting at p.
FinishAt(s, p) ==
    LET d == SkipSpace(s, p)
        c == FindTok(s, d + 3, ")")
    IN  IF /\ At(s, d) = "."
           /\ At(s, d + 1) \in Finishers
           /\ At(s, d + 2) = "("
           /\ c > d + 3
           /\ c <= Len(s)
        THEN [ok |-> TRUE, end |-> c + 1, message |-> Slice(s, d + 3, c - 1)]
        ELSE NoMatch

\* The largest k such that the finisher matches at ends[k] (0: none).
LastFinish(s, ends) ==
    LET good == {k \in 1..Len(ends) : FinishAt(s, ends[k]).ok}
    IN  IF good = {} THEN 0 ELSE CHOOSE x \in good : \A y \in good : y <= x

\* pattern (line 14) at position i.  The dot of the first setter is matched
\* by the "\s*\." that follows the anchor, outside group 3: the anchor ends
\* at a, that dot is at d, the elements may end at the positions ends and
\* the finisher t starts at ends[k].
LoggingGroups(s, i, a, d, ends, k, t) ==
    [ok |-> TRUE, end |-> t.end,
     logger_prefix |-> Slice(s, i, a - 3),
     method_chain |-> Slice(s, d + 1, ends[k] - 1),
     message |-> t.message]

LoggingFinish(s, i, a, d, ends, k) ==
    IF k = 0 THEN NoMatch
    ELSE LoggingGroups(s, i, a, d, ends, k, FinishAt(s, ends[k]))

LoggingChain(s, i, a, d, ends) ==
    LoggingFinish(s, i, a, d, ends, LastFinish(s, ends))

LoggingDot(s, i, a, d) ==
    IF At(s, d) # "." THEN NoMatch
    ELSE LoggingChain(s, i, a, d, ElementEnds(s, d + 1))

LoggingAnchor(s, i, a) ==
    IF a = 0 THEN NoMatch ELSE LoggingDot(s, i, a, SkipSpace(s, a))

LoggingPatternAt(s, i) == LoggingAnchor(s, i, PrefixedAnchorEnd(s, i))

\* \.Str\("([^"]+)",\s*([^)]+)\)  (and the same for Int, Bool, Dur) at
\* position i; \s* gives back one whitespace when \) follows it.
KeyedFieldAt(s, i, method) ==
    LET q == FindTok(s, i + 4, Q)
        c == FindTok(s, q + 2, ")")
        w == SkipSpace(s, q + 2)
    IN  IF /\ LitAt(s, i, <<".", method, "(", Q>>)
           /\ q > i + 4
           /\ q <= Len(s)
           /\ At(s, q + 1) = ","
           /\ c > q + 2
           /\ c <= Len(s)
        THEN [ok |-> TRUE, end |-> c + 1,
              key |-> Slice(s, i + 4, q - 1),
              value |-> IF w < c THEN Slice(s, w, c - 1) ELSE <<s[c - 1]>>]
        ELSE NoMatch

\* \.Err\(([^)]+)\)  at position i.
ErrFieldAt(s, i) ==
    LET c == FindTok(s, i + 3, ")")
    IN  IF LitAt(s, i, <<".", "Err", "(">>) /\ c > i + 3 /\ c <= Len(s)
        THEN [ok |-> TRUE, end |-> c + 1,
              key |-> <<"error">>, value |-> Slice(s, i + 3, c - 1)]
        ELSE NoMatch

KeyedFields(s, method) ==
    FindAllFrom(s, [i \in 1..Len(s) |-> KeyedFieldAt(s, i, method)], 1)
ErrFields(s) ==
    FindAllFrom(s, [i \in 1..Len(s) |-> ErrFieldAt(s, i)], 1)

\* Lines 23-47 (and lines 52-72 of fix_pipeline_logging_v2.py): the pairs,
\* collected one setter type after the other.
CollectPairs(s) ==
    KeyedFields(s, "Str") \o KeyedFields(s, "Int") \o KeyedFields(s, "Bool")
        \o KeyedFields(s, "Dur") \o ErrFields(s)

\* f'"{key}", {value}'
RECURSIVE RenderPairs(_)
RenderPairs(pairs) ==
    IF pairs = <<>> THEN <<>>
    ELSE <<<<Q>> \o Head(pairs).key \o <<Q, ",", SP>> \o Head(pairs).value>>
            \o RenderPairs(Tail(pairs))

\* Lines 49-54 (and lines 75-79 of fix_pipeline_logging_v2.py).
FlatCall(logger_call, message, pairs) ==
    IF pairs # <<>>
    THEN logger_call \o <<"(">> \o message \o <<",", SP>>
            \o Join(<<",", SP>>, RenderPairs(pairs)) \o <<")">>
    ELSE logger_call \o <<"(">> \o message \o <<")">>

replace_logging(m) ==
    FlatCall(m.logger_prefix, m.message, CollectPairs(m.method_chain))

LoggingSub(m) ==
    IF m.ok THEN [ok |-> TRUE, end |-> m.end, rep |-> replace_logging(m)]
    ELSE NoMatch

LoggingSubAt(s, i) == LoggingSub(LoggingPatternAt(s, i))

\* Lines 60-61: the chain without setters, replaced by \1(\4), for the
\* anchor that ends at a and the finisher t.
SimpleLoggingSub(s, i, a, t) ==
    IF ~t.ok THEN NoMatch
    ELSE [ok |-> TRUE, end |-> t.end,
          rep |-> Slice(s, i, a - 3) \o <<"(">> \o t.message \o <<")">>]

SimpleLoggingAnchor(s, i, a) ==
    IF a = 0 THEN NoMatch ELSE SimpleLoggingSub(s, i, a, FinishAt(s, a))

SimpleLoggingSubAt(s, i) == SimpleLoggingAnchor(s, i, PrefixedAnchorEnd(s, i))

\* Line 57 and lines 60-61: the two substitutions.
LoggingPass(content) ==
    SubFrom(content, [i \in 1..Len(content) |-> LoggingSubAt(content, i)], 1)
SimpleLoggingPass(content) ==
    SubFrom(content,
            [i \in 1..Len(content) |-> SimpleLoggingSubAt(content, i)], 1)

fix_logging_style(content) == SimpleLoggingPass(LoggingPass(content))

(***************************************************************************)
(* fix_pipeline_logging_v2.py                                              *)
(***************************************************************************)

\* f.readlines(): the lines of the text, each with its newline.
RECURSIVE ReadLines(_)
ReadLines(s) ==
    IF s = <<>> THEN <<>>
    ELSE LET e == FindTok(s, 1, NL)
         IN  IF e > Len(s) THEN <<s>>
             ELSE <<Slice(s, 1, e)>> \o ReadLines(Slice(s, e + 1, Len(s)))

\* re.search(r'\.logger\.(Info|Debug|Warn|Error)\(\)\s*\.', line), line 25
StartsChain(line) ==
    \E i \in 1..Len(line) :
        /\ LitAt(line, i, <<".", "logger", ".">>)
        /\ At(line, i + 3) \in Levels
        /\ At(line, i + 4) = "("
        /\ At(line, i + 5) = ")"
        /\ At(line, SkipSpace(line, i + 6)) = "."

\* re.search(r'\.Msg(f)?\(', line), line 31
HasMsg(line) ==
    \E i \in 1..Len(line) :
        At(line, i) = "." /\ At(line, i + 1) \in Finishers /\ At(line, i + 2) = "("

\* Lines 28-33: the index after the collected statement that starts at
\* line i (lines are numbered from 1 here; j is the next line to take).
RECURSIVE CollectEnd(_, _)
CollectEnd(lines, j) ==
    IF j <= Len(lines) /\ ~HasMsg(lines[j - 1]) THEN CollectEnd(lines, j + 1)
    ELSE j

\* re.match(r'(\s*)(.+\.logger\.(Info|Debug|Warn|Error))\(\)', st), line 39:
\* st is stripped, so (\s*) is empty; (.+) is greedy and stays on one line.
LoggerMatch(st) ==
    LET e == FindTok(st, 1, NL)
        hits == {i \in 2..Len(st) :
                    /\ i < e
                    /\ LitAt(st, i, <<".", "logger", ".">>)
                    /\ At(st, i + 3) \in Levels
                    /\ At(st, i + 4) = "("
                    /\ At(st, i + 5) = ")"}
        h == CHOOSE x \in hits : \A y \in hits : y <= x
    IN  IF hits = {} THEN NoMatch
        ELSE [ok |-> TRUE, indent |-> <<>>, logger_call |-> Slice(st, 1, h + 3)]

\* re.search(r'\.Msg(f)?\(([^)]+)\)', st), line 46
MsgMatch(st) ==
    LET hits == {i \in 1..Len(st) : FinishAt(st, i).ok /\ At(st, i) = "."}
        h == CHOOSE x \in hits : \A y \in hits : x <= y
    IN  IF hits = {} THEN NoMatch
        ELSE [ok |-> TRUE, message |-> FinishAt(st, h).message]

\* Lines 21-86: the while loop from line i on.
RECURSIVE RewriteLines(_, _)
RewriteLines(lines, i) ==
    IF i > Len(lines) THEN <<>>
    ELSE LET j == CollectEnd(lines, i + 1)
             st == Strip(Concat(SubSeq(lines, i, j - 1)))
             lm == LoggerMatch(st)
             mm == MsgMatch(st)
         IN  IF StartsChain(lines[i]) /\ lm.ok /\ mm.ok
             THEN <<lm.indent
                      \o FlatCall(lm.logger_call, mm.message, CollectPairs(st))
                      \o <<NL>>>> \o RewriteLines(lines, j)
             ELSE <<lines[i]>> \o RewriteLines(lines, i + 1)

fix_pipeline_logging_v2(text) == Concat(RewriteLines(ReadLines(text), 1))

(***************************************************************************)
(* scripts/fix_messagef_simple.py                                          *)
(***************************************************************************)
Verbs == {"%w", "%s", "%d"}

\* str.replace(old, new): every occurrence, left to right.
RECURSIVE ReplaceFrom(_, _, _, _)
ReplaceFrom(s, old, new, i) ==
    IF i > Len(s) THEN <<>>
    ELSE IF LitAt(s, i, old) THEN new \o ReplaceFrom(s, old, new, i + Len(old))
    ELSE <<s[i]>> \o ReplaceFrom(s, old, new, i + 1)
Replace(s, old, new) == IF old = <<>> THEN s ELSE ReplaceFrom(s, old, new, 1)

\* The start of the whitespace run that ends just before position p.
RECURSIVE SpaceRunStart(_, _)
SpaceRunStart(s, p) ==
    IF p > 1 /\ IsSpace(s[p - 1]) THEN SpaceRunStart(s, p - 1) ELSE p

\* The three substitutions of lines 17-33 at position i.  sep tells which:
\*   1:  \.Messagef\("([^"]*?):\s*%w"\s*,\s*([a-zA-Z0-9_]+)\)
\*   2:  \.Messagef\("([^"]*?)\s+%w"\s*,\s*([a-zA-Z0-9_]+)\)
\*   3:  \.Messagef\("([^"]*?)%w"\s*,\s*([a-zA-Z0-9_]+)\)
\* each replaced by  .Message("\1").Cause(\2)
\* A faulty variant of CauseGroupEnd: group 1 runs up to the verb, so the
\* separator stays in the message.
CauseGroupEndKeepsSeparator(q, r, sep) == q - 2

\* The last position of group 1, ([^"]*?), for the closing quote at q and
\* the whitespace run before the verb starting at r.
CauseGroupEnd(q, r, sep) ==
    IF sep = 1 THEN r - 2 ELSE IF sep = 2 THEN r - 1 ELSE q - 2

SimpleCauseAt(s, i, sep) ==
    LET q == FindTok(s, i + 4, Q)
        r == SpaceRunStart(s, q - 1)
        g == CauseGroupEnd(q, r, sep)
        c == SkipSpace(s, q + 1)
        a == SkipSpace(s, c + 1)
        e == SkipWord(s, a)
    IN  IF /\ LitAt(s, i, <<".", "Messagef", "(", Q>>)
           /\ q <= Len(s)
           /\ q - 1 >= i + 4
           /\ s[q - 1] = "%w"
           /\ sep = 1 => (r - 1 >= i + 4 /\ s[r - 1] = ":")
           /\ sep = 2 => (r < q - 1 /\ r >= i + 4)
           /\ At(s, c) = ","
           /\ e > a
           /\ At(s, e) = ")"
        THEN [ok |-> TRUE, end |-> e + 1,
              rep |-> <<".", "Message", "(", Q>> \o Slice(s, i + 4, g)
                        \o <<Q, ")", ".", "Cause", "(">> \o Slice(s, a, e - 1)
                        \o <<")">>]
        ELSE NoMatch

SimpleCauseSub(s, sep) ==
    SubFrom(s, [i \in 1..Len(s) |-> SimpleCauseAt(s, i, sep)], 1)

\* content.split('\n'), line 37
RECURSIVE SplitLines(_)
SplitLines(s) ==
    LET e == FindTok(s, 1, NL)
    IN  IF e > Len(s) THEN <<s>>
        ELSE <<Slice(s, 1, e - 1)>> \o SplitLines(Slice(s, e + 1, Len(s)))

\* re.search(r'\.Messagef\("([^"]+)"\s*,(.+)\)', line), line 43: (.+) is
\* greedy, so it ends at the last ")" of the line.
MessagefSearch(line) ==
    LET ok(i) ==
            LET q == FindTok(line, i + 4, Q)
                c == SkipSpace(line, q + 1)
            IN  /\ LitAt(line, i, <<".", "Messagef", "(", Q>>)
                /\ q > i + 4
                /\ q <= Len(line)
                /\ At(line, c) = ","
                /\ \E z \in (c + 2)..Len(line) : line[z] = ")"
        hits == {i \in 1..Len(line) : ok(i)}
        h == CHOOSE x \in hits : \A y \in hits : x <= y
        q == FindTok(line, h + 4, Q)
        c == SkipSpace(line, q + 1)
        closes == {z \in (c + 2)..Len(line) : line[z] = ")"}
        z == CHOOSE x \in closes : \A y \in closes : y <= x
    IN  IF hits = {} THEN NoMatch
        ELSE [ok |-> TRUE,
              format_str |-> Slice(line, h + 4, q - 1),
              args |-> Slice(line, c + 1, z - 1)]

\* re.findall(r'%[^%\s]', format_str), line 49
FormatVerbs(format_str) == SelectSeq(format_str, LAMBDA t : t \in Verbs)

\* Lines 54-56
RemoveWrapVerb(format_str) ==
    Replace(Replace(Replace(format_str, <<":", SP, "%w">>, <<>>),
                    <<SP, "%w">>, <<>>),
            <<"%w">>, <<>>)

\* Lines 61-77: the loop over the characters of args_str from position i,
\* with the parts found so far, the current part and the depth counter.
RECURSIVE SplitArgsFrom(_, _, _, _, _)
SplitArgsFrom(a, i, parts, current, depth) ==
    IF i > Len(a)
    THEN IF current # <<>> THEN Append(parts, Strip(current)) ELSE parts
    ELSE IF a[i] \in {"(", "{", "["}
    THEN SplitArgsFrom(a, i + 1, parts, Append(current, a[i]), depth + 1)
    ELSE IF a[i] \in {")", "}", "]"}
    THEN SplitArgsFrom(a, i + 1, parts, Append(current, a[i]), depth - 1)
    ELSE IF a[i] = "," /\ depth = 0
    THEN SplitArgsFrom(a, i + 1, Append(parts, Strip(current)), <<>>, depth)
    ELSE SplitArgsFrom(a, i + 1, parts, Append(current, a[i]), depth)

SplitArgs(args_str) == SplitArgsFrom(args_str, 1, <<>>, <<>>, 0)

\* error_arg = args_parts[-1].rstrip(')'), line 81
RECURSIVE RStripParen(_)
RStripParen(s) ==
    IF s # <<>> /\ s[Len(s)] = ")" THEN RStripParen(Slice(s, 1, Len(s) - 1))
    ELSE s

\* Lines 79-103: the rewritten line, given the match.
RebuildLine(line, format_str, args_str) ==
    LET new_format == RemoveWrapVerb(format_str)
        args_parts == SplitArgs(args_str)
        error_arg == RStripParen(args_parts[Len(args_parts)])
        other_args == Slice(args_parts, 1, Len(args_parts) - 1)
        old == <<".", "Messagef", "(", Q>> \o format_str \o <<Q, ",", SP>>
                 \o args_str
    IN  IF Len(args_parts) >= Len(FormatVerbs(format_str))
        THEN IF other_args # <<>>
             THEN Replace(line, old,
                    <<".", "Message", "(", "fmt", ".", "Sprintf", "(", Q>>
                      \o new_format \o <<Q, ",", SP>>
                      \o Join(<<",", SP>>, other_args)
                      \o <<")", ")", ".", "Cause", "(">> \o error_arg)
             ELSE Replace(line, old,
                    <<".", "Message", "(", Q>> \o new_format
                      \o <<Q, ")", ".", "Cause", "(">> \o error_arg)
        ELSE line

\* Lines 41-51: the line goes through the argument splitter.
MultiVerbLine(line) ==
    LET m == MessagefSearch(line)
    IN  /\ Contains(line, <<"Messagef">>)
        /\ Contains(line, <<"%w">>)
        /\ ~Contains(line, <<".", "Cause", "(">>)
        /\ m.ok
        /\ "%w" \in {m.format_str[k] : k \in 1..Len(m.format_str)}
        /\ Len(FormatVerbs(m.format_str)) > 1

\* Lines 41-105: one line of the loop.
FixLine(line) ==
    IF MultiVerbLine(line)
    THEN RebuildLine(line, MessagefSearch(line).format_str,
                     Strip(MessagefSearch(line).args))
    ELSE line

RECURSIVE FixLines(_)
FixLines(lines) ==
    IF lines = <<>> THEN <<>> ELSE <<FixLine(Head(lines))>> \o FixLines(Tail(lines))

\* Lines 17-33: the three substitutions, one after the other.
SimpleCausePass(content) ==
    SimpleCauseSub(SimpleCauseSub(SimpleCauseSub(content, 1), 2), 3)

\* Lines 17-107: the content transformation of fix_messagef_in_file.
fix_messagef(content) ==
    Join(<<NL>>, FixLines(SplitLines(SimpleCausePass(content))))

\* re.search(r'import\s*\(([^)]+)\)', content), line 113
ImportSearch(content) ==
    LET ok(i) ==
            LET o == SkipSpace(content, i + 1)
                c == FindTok(content, o + 1, ")")
            IN  /\ At(content, i) = "import"
                /\ At(content, o) = "("
                /\ c > o + 1
                /\ c <= Len(content)
        hits == {i \in 1..Len(content) : ok(i)}
        h == CHOOSE x \in hits : \A y \in hits : x <= y
        o == SkipSpace(content, h + 1)
        c == FindTok(content, o + 1, ")")
    IN  IF hits = {} THEN NoMatch
        ELSE [ok |-> TRUE, whole |-> Slice(content, h, c),
              imports |-> Slice(content, o + 1, c - 1)]

\* Lines 111-119: the fmt import is added to a changed file that needs it.
AddFmtImport(content) ==
    LET m == ImportSearch(content)
    IN  IF /\ Contains(content, <<"fmt", ".", "Sprintf">>)
           /\ ~Contains(content, <<"import", SP, Q, "fmt", Q>>)
           /\ m.ok
           /\ ~Contains(m.imports, <<Q, "fmt", Q>>)
        THEN Replace(content, m.whole,
                     <<"import", SP, "(">> \o RStrip(m.imports)
                        \o <<NL, TAB, Q, "fmt", Q, NL, ")">>)
        ELSE content

(***************************************************************************)
(* fix_security_test_logging.py                                            *)
(***************************************************************************)
SlogHandler ==
    <<"slog", ".", "New", "(", "slog", ".", "NewTextHandler", "(", "os", ".",
      "Stdout", ",", SP, "nil", ")", ")">>

\* Lines 12-19: the two substitutions; both patterns are literals.
fix_security_test_logging(content) ==
    Replace(Replace(content,
                    <<"logger", SP, ":=", SP, "zerolog", ".", "Nop", "(", ")">>,
                    <<"logger", SP, ":=", SP>> \o SlogHandler),
            <<"zerolog", ".", "New", "(", "os", ".", "Stdout", ")">>,
            SlogHandler)

(***************************************************************************)
(* The files the scripts are run on.                                       *)
(***************************************************************************)
SegStr == <<".", "Str", "(", Q, "user", Q, ",", SP, "u", ")">>
SegInt == <<".", "Int", "(", Q, "count", Q, ",", SP, "n", ")">>
SegErr == <<NL, TAB, TAB, ".", "Err", "(", "err", ")">>
SegDur == <<".", "Dur", "(", Q, "took", Q, ",", SP, "d", ")">>
SegFloat == <<".", "Float64", "(", Q, "ratio", Q, ",", SP, "r", ")">>
SegKinds == {SegStr, SegInt, SegErr, SegDur, SegFloat}

TermMsg == <<".", "Msg", "(", Q, "login", Q, ")">>
TermWrapped == <<NL, TAB, TAB, ".", "Msg", "(", Q, "failed", Q, ")">>
Terms == {TermMsg, TermWrapped, <<>>}

Leads == {<<>>, <<TAB>>}
Anchors == {<<"s", ".", "logger", ".", "Info", "(", ")">>,
            <<"logger", ".", "Error", "(", ")">>}
LaterPlain == <<NL, TAB, "foo", "(", ")", NL>>
LaterChain ==
    <<TAB, "s", ".", "logger", ".", "Debug", "(", ")", ".", "Msg", "(", Q,
      "later", Q, ")", NL>>
LaterStatement == LaterPlain \o LaterChain
Follows == {<<>>, <<NL>>, LaterStatement}

SegLists == UNION {[1..n -> SegKinds] : n \in 0..MaxSegs}

ChainTexts ==
    {lead \o anchor \o Concat(segs) \o term \o follow :
        lead \in Leads, anchor \in Anchors, segs \in SegLists,
        term \in Terms, follow \in Follows}

\* Setters whose key is a named constant, or an empty literal, and the
\* chains that hold at least one of them.
SegConstKey == <<".", "Str", "(", "key", ",", SP, "u", ")">>
SegEmptyKey == <<".", "Bool", "(", Q, Q, ",", SP, "v", ")">>
KeySegs == {SegConstKey, SegEmptyKey}
KeySegLists ==
    {segs \in UNION {[1..n -> KeySegs \cup {SegInt}] : n \in 1..MaxSegs} :
        \E i \in DOMAIN segs : segs[i] \in KeySegs}
KeyTexts ==
    {lead \o anchor \o Concat(segs) \o TermMsg \o <<NL>> :
        lead \in Leads, anchor \in Anchors, segs \in KeySegLists}

\* Files with Messagef calls.
Formats == {<<"save", SP, "failed", ":", SP, "%w">>,
            <<"save", SP, "failed", SP, "%w">>,
            <<"save", SP, "%s", SP, "failed", ":", SP, "%w">>,
            <<"%w", SP, "while", SP, "saving">>}
ArgLists == {<<"err">>,
             <<"e", ".", "err">>,
             <<"name", ",", SP, "err">>,
             <<"name", ",", SP, "mkErr", "(", ")">>,
             <<Q, "x", ",", "y", Q, ",", SP, "err">>,
             <<"f", "(", "x", ",", SP, "y", ")", ",", SP, "err">>,
             <<"name", ",", SP, "x", ",", SP, "err">>}
MessagefCall(f, a) ==
    <<"b", ".", "Messagef", "(", Q>> \o f \o <<Q, ",", SP>> \o a \o <<")">>
Calls == {MessagefCall(f, a) : f \in Formats, a \in ArgLists}
ImportBlock == <<"import", SP, "(", NL, TAB, Q, "os", Q, NL, ")", NL>>
\* A call as a statement of its own, and as the argument of another call.
Contexts == {<< <<"return", SP>>, <<>> >>,
             << <<"return", SP, "wrap", "(">>, <<")">> >>}
LineOf(ctx, c) == ctx[1] \o c \o ctx[2]
MessagefLines ==
    {LineOf(ctx, c) : ctx \in Contexts, c \in Calls}
    \cup {<<"return", SP, "pair", "(">> \o c \o <<",", SP>> \o d \o <<")">> :
            c \in Calls, d \in Calls}
Headers == {<<>>, ImportBlock}
MessagefTexts == {h \o l \o <<NL>> : h \in Headers, l \in MessagefLines}

\* Files of the security test.
SecurityLines ==
    {<<"logger", SP, ":=", SP, "zerolog", ".", "Nop", "(", ")", NL>>,
     <<"w", SP, ":=", SP, "zerolog", ".", "New", "(", "os", ".", "Stdout", ")", NL>>,
     <<"x", SP, ":=", SP, "other", "(", ")", NL>>}
SecurityTexts ==
    {Concat(ls) : ls \in UNION {[1..n -> SecurityLines] : n \in 0..MaxSegs}}

(***************************************************************************)
(* State: one script run on one file, MaxRuns times in a row.              *)
(***************************************************************************)
VARIABLES
    script,     \* the script that is run
    disk,       \* the content of the file
    pc,         \* where the run is: "idle", "read", "rewritten", "done"
    content,    \* the script's variable content (new_content, new_lines)
    original,   \* the content as read (original_content)
    opened,     \* the file was opened with mode 'w' in this run
    run         \* the number of finished runs

\* State of a run of main over a list of paths (used by BatchSpec only).
VARIABLES
    mode,       \* how main got its paths: "args", "list", "missing", "walk"
    entries,    \* the paths in order, each with its file and its fault
    results,    \* what the call on each path does: how it ends, its text
    index,      \* the position of the loop in entries
    counted,    \* the counter of changed files (converted, fixed_count)
    errors,     \* the positions whose error was printed, in order
    visited,    \* the positions whose file was processed, in order
    finished    \* main has printed its summary and returned

fileVars == <<disk, pc, content, original, opened, run>>
batchVars == <<mode, entries, results, index, counted, errors, visited,
               finished>>
vars == <<script, disk, pc, content, original, opened, run,
          mode, entries, results, index, counted, errors, visited, finished>>

Scripts == {"zerolog", "messagef", "pipeline", "pipeline_v2", "security"}

InputsOf(sc) ==
    IF sc = "messagef" THEN MessagefTexts
    ELSE IF sc = "security" THEN SecurityTexts
    ELSE IF sc = "zerolog" THEN ChainTexts \cup KeyTexts
    ELSE ChainTexts

Init ==
    /\ script \in Scripts
    /\ disk \in InputsOf(script)
    /\ pc = "idle"
    /\ content = <<>>
    /\ original = <<>>
    /\ opened = FALSE
    /\ run = 0
    /\ mode = "single"
    /\ entries = <<>>
    /\ results = <<>>
    /\ index = 1
    /\ counted = 0
    /\ errors = <<>>
    /\ visited = <<>>
    /\ finished = FALSE

\* Reading the file into content; original is the content as read.
ReadFile(sc) ==
    /\ script = sc /\ pc = "idle"
    /\ content' = disk
    /\ original' = disk
    /\ UNCHANGED <<script, disk, opened, run>>
    /\ UNCHANGED batchVars

\* with open(filepath, 'w') as f: f.write(content)
WriteFile ==
    /\ disk' = content
    /\ opened' = TRUE

\* convert_zerolog_to_slog.py, process_file, lines 76-81
ZlRead ==
    /\ ReadFile("zerolog")
    /\ pc' = IF NeedsConversion(disk) THEN "read" ELSE "done"

\* process_file, line 84
ZlConvert ==
    /\ script = "zerolog" /\ pc = "read"
    /\ content' = convert_zerolog_to_slog(content)
    /\ pc' = "rewritten"
    /\ UNCHANGED <<script, disk, original, opened, run>>
    /\ UNCHANGED batchVars

\* process_file, lines 87-92
ZlPersist ==
    /\ script = "zerolog" /\ pc = "rewritten"
    /\ IF content # original THEN WriteFile ELSE UNCHANGED <<disk, opened>>
    /\ pc' = "done"
    /\ UNCHANGED <<script, content, original, run>>
    /\ UNCHANGED batchVars

\* fix_messagef_simple.py, fix_messagef_in_file, lines 10-13
MfRead ==
    /\ ReadFile("messagef")
    /\ pc' = "read"

\* fix_messagef_in_file, lines 17-107
MfRewrite ==
    /\ script = "messagef" /\ pc = "read"
    /\ content' = fix_messagef(content)
    /\ pc' = "rewritten"
    /\ UNCHANGED <<script, disk, original, opened, run>>
    /\ UNCHANGED batchVars

\* fix_messagef_in_file, lines 109-127
MfPersist ==
    /\ script = "messagef" /\ pc = "rewritten"
    /\ IF content # original
       THEN /\ content' = AddFmtImport(content)
            /\ disk' = AddFmtImport(content)
            /\ opened' = TRUE
       ELSE UNCHANGED <<content, disk, opened>>
    /\ pc' = "done"
    /\ UNCHANGED <<script, original, run>>
    /\ UNCHANGED batchVars

\* fix_pipeline_logging.py, lines 71-74
PlRead ==
    /\ ReadFile("pipeline")
    /\ pc' = "read"

\* fix_pipeline_logging.py, line 75
PlFix ==
    /\ script = "pipeline" /\ pc = "read"
    /\ content' = fix_logging_style(content)
    /\ pc' = "rewritten"
    /\ UNCHANGED <<script, disk, original, opened, run>>
    /\ UNCHANGED batchVars

\* fix_pipeline_logging.py, lines 77-80
PlPersist ==
    /\ script = "pipeline" /\ pc = "rewritten"
    /\ IF content # original THEN WriteFile ELSE UNCHANGED <<disk, opened>>
    /\ pc' = "done"
    /\ UNCHANGED <<script, content, original, run>>
    /\ UNCHANGED batchVars

\* fix_pipeline_logging_v2.py, lines 16-17
V2Read ==
    /\ ReadFile("pipeline_v2")
    /\ pc' = "read"

\* fix_pipeline_logging_v2.py, lines 19-86
V2Rewrite ==
    /\ script = "pipeline_v2" /\ pc = "read"
    /\ content' = fix_pipeline_logging_v2(content)
    /\ pc' = "rewritten"
    /\ UNCHANGED <<script, disk, original, opened, run>>
    /\ UNCHANGED batchVars

\* fix_pipeline_logging_v2.py, lines 89-90: the file is written back.
V2Write ==
    /\ script = "pipeline_v2" /\ pc = "rewritten"
    /\ WriteFile
    /\ pc' = "done"
    /\ UNCHANGED <<script, content, original, run>>
    /\ UNCHANGED batchVars

\* fix_security_test_logging.py, lines 8-9
SecRead ==
    /\ ReadFile("security")
    /\ pc' = "read"

\* fix_security_test_logging.py, lines 12-19
SecSub ==
    /\ script = "security" /\ pc = "read"
    /\ content' = fix_security_test_logging(content)
    /\ pc' = "rewritten"
    /\ UNCHANGED <<script, disk, original, opened, run>>
    /\ UNCHANGED batchVars

\* fix_security_test_logging.py, lines 22-23: the file is written back.
SecWrite ==
    /\ script = "security" /\ pc = "rewritten"
    /\ WriteFile
    /\ pc' = "done"
    /\ UNCHANGED <<script, content, original, run>>
    /\ UNCHANGED batchVars

\* The operator runs the same script again on the same file.
RunAgain ==
    /\ pc = "done" /\ run + 1 < MaxRuns
    /\ run' = run + 1
    /\ pc' = "idle"
    /\ opened' = FALSE
    /\ content' = <<>>
    /\ original' = <<>>
    /\ UNCHANGED <<script, disk>>
    /\ UNCHANGED batchVars

Next ==
    \/ ZlRead \/ ZlConvert \/ ZlPersist
    \/ MfRead \/ MfRewrite \/ MfPersist
    \/ PlRead \/ PlFix \/ PlPersist
    \/ V2Read \/ V2Rewrite \/ V2Write
    \/ SecRead \/ SecSub \/ SecWrite
    \/ RunAgain

Spec == Init /\ [][Next]_vars

(***************************************************************************)
(* main of convert_zerolog_to_slog.py and of fix_messagef_simple.py over a *)
(* list of paths.  Every path has the text of its file and a fault: the    *)
(* step of the processing of that file at which the system raises an       *)
(* error ("none": no step fails).                                          *)
(***************************************************************************)
BatchLen == 2

Faults == {"none", "read", "rewrite", "write"}

\* Files for convert_zerolog_to_slog.py: one that is converted, one without
\* 'logger.', and one that has 'logger.' and '.Msg(' but no chain.
ZlBatchTexts ==
    {<<"logger", ".", "Error", "(", ")">> \o SegStr \o TermMsg \o <<NL>>,
     <<"x", SP, ":=", SP, "other", "(", ")", NL>>,
     <<"logger", ".", "Error", "(", ")", NL, "x">> \o TermMsg \o <<NL>>}

\* Files for fix_messagef_simple.py: one that is fixed, one without
\* 'Messagef', and one whose call no pattern rewrites.
MfBatchTexts ==
    {<<"return", SP>>
        \o MessagefCall(<<"save", SP, "failed", ":", SP, "%w">>, <<"err">>)
        \o <<NL>>,
     <<"x", SP, ":=", SP, "other", "(", ")", NL>>,
     <<"return", SP>>
        \o MessagefCall(<<"save", SP, "failed", ":", SP, "%w">>,
                        <<"e", ".", "err">>)
        \o <<NL>>}

\* The entries of a list: Go files, and a name that main passes over (an
\* empty line of zerolog_files.txt, a file of the walk that is no .go file).
FileEntries(texts) ==
    {[name |-> "a.go", text |-> t, fault |-> f] : t \in texts, f \in Faults}
OtherEntry(sc) ==
    [name |-> IF sc = "zerolog" THEN "" ELSE "notes.txt", text |-> <<>>,
     fault |-> "none"]
EntriesOf(sc) ==
    IF sc = "zerolog" THEN FileEntries(ZlBatchTexts) \cup {OtherEntry(sc)}
    ELSE FileEntries(MfBatchTexts) \cup {OtherEntry(sc)}
EntryLists(sc) == UNION {[1..n -> EntriesOf(sc)] : n \in 0..BatchLen}

ModesOf(sc) == IF sc = "zerolog" THEN {"args", "list", "missing"} ELSE {"walk"}

\* process_file, lines 73-95, on entry e: how the call ends.  open('') and
\* a faulty read raise; every error is caught by line 93.
\*   "error": caught, printed, False      "written": True
\*   "skipped", "unchanged": False
ProcessFileEnds(e) ==
    IF e.name = "" \/ e.fault = "read" THEN "error"
    ELSE IF ~NeedsConversion(e.text) THEN "skipped"
    ELSE IF e.fault = "rewrite" THEN "error"
    ELSE IF convert_zerolog_to_slog(e.text) = e.text THEN "unchanged"
    ELSE IF e.fault = "write" THEN "error"
    ELSE "written"

\* fix_messagef_simple.py, main, lines 142-150, on entry e: how the body of
\* the try ends.
FixFileEnds(e) ==
    IF e.fault = "read" THEN "error"
    ELSE IF ~(Contains(e.text, <<"Messagef">>) /\ Contains(e.text, <<"%w">>))
    THEN "skipped"
    ELSE IF e.fault = "rewrite" THEN "error"
    ELSE IF fix_messagef(e.text) = e.text THEN "unchanged"
    ELSE IF e.fault = "write" THEN "error"
    ELSE "written"

\* The call main makes on entry e: how it ends, and the text it computes.
\* A path is visited once, before anything is written to it, so the result
\* of the call is a function of the entry as the run finds it.
CallResult(sc, e) ==
    IF sc = "zerolog"
    THEN [ends |-> ProcessFileEnds(e), new |-> convert_zerolog_to_slog(e.text)]
    ELSE [ends |-> FixFileEnds(e), new |-> AddFmtImport(fix_messagef(e.text))]

\* What a failed write can leave in a file opened with mode 'w': the old
\* text (open failed) or nothing (write failed).
AfterFailedWrite(text) == {text, <<>>}

\* The file of entry e after the call that ended with how.
TextsAfter(e, how, new) ==
    IF how = "written" THEN {new}
    ELSE IF how = "error" /\ e.fault = "write" /\ e.name # ""
    THEN AfterFailedWrite(e.text)
    ELSE {e.text}

\* main starts with its paths; no file was touched.
BatchInit ==
    /\ script \in {"zerolog", "messagef"}
    /\ mode \in ModesOf(script)
    /\ entries \in IF mode = "missing" THEN {<<>>} ELSE EntryLists(script)
    /\ results = [i \in DOMAIN entries |-> CallResult(script, entries[i])]
    /\ index = 1
    /\ counted = 0
    /\ errors = <<>>
    /\ visited = <<>>
    /\ finished = FALSE
    /\ disk = <<>>
    /\ pc = "main"
    /\ content = <<>>
    /\ original = <<>>
    /\ opened = FALSE
    /\ run = 0

\* A faulty variant of NextPath: an error ends the loop.
NextPathStopsOnError(error, count, text) ==
    /\ entries' = [entries EXCEPT ![index].text = text]
    /\ visited' = Append(visited, index)
    /\ errors' = IF error THEN Append(errors, index) ELSE errors
    /\ counted' = IF count THEN counted + 1 ELSE counted
    /\ index' = IF error THEN Len(entries) + 1 ELSE index + 1
    /\ UNCHANGED <<script, mode, results, finished>>
    /\ UNCHANGED fileVars

\* The loop goes on to the next path: an error was printed (error), the call
\* returned True in a loop that counts (count).
NextPath(error, count, text) ==
    /\ entries' = [entries EXCEPT ![index].text = text]
    /\ visited' = Append(visited, index)
    /\ errors' = IF error THEN Append(errors, index) ELSE errors
    /\ counted' = IF count THEN counted + 1 ELSE counted
    /\ index' = index + 1
    /\ UNCHANGED <<script, mode, results, finished>>
    /\ UNCHANGED fileVars

\* main, lines 100-101: process_file on the next argument.
ZlMainArg ==
    /\ script = "zerolog" /\ mode = "args" /\ pc = "main"
    /\ index <= Len(entries)
    /\ \E text \in TextsAfter(entries[index], results[index].ends,
                              results[index].new) :
          NextPath(results[index].ends = "error", FALSE, text)

\* main, lines 109-111: the next line of zerolog_files.txt; an empty line
\* is passed over.
ZlMainListed ==
    /\ script = "zerolog" /\ mode = "list" /\ pc = "main"
    /\ index <= Len(entries)
    /\ IF entries[index].name = ""
       THEN /\ index' = index + 1
            /\ UNCHANGED <<script, mode, entries, results, counted, errors,
                           visited, finished>>
            /\ UNCHANGED fileVars
       ELSE \E text \in TextsAfter(entries[index], results[index].ends,
                                   results[index].new) :
               NextPath(results[index].ends = "error",
                        results[index].ends = "written", text)

\* main, lines 97-115: the paths are used up (or there is no
\* zerolog_files.txt); the summary is printed and main returns.
ZlMainEnd ==
    /\ script = "zerolog" /\ pc = "main" /\ ~finished
    /\ index > Len(entries)
    /\ finished' = TRUE
    /\ UNCHANGED <<script, mode, entries, results, index, counted, errors,
                   visited>>
    /\ UNCHANGED fileVars

\* fix_messagef_simple.py, main, lines 138-150: the next file of the walk;
\* a file that is no .go file is passed over.
MfMainFile ==
    /\ script = "messagef" /\ mode = "walk" /\ pc = "main"
    /\ index <= Len(entries)
    /\ IF entries[index].name # "a.go"
       THEN /\ index' = index + 1
            /\ UNCHANGED <<script, mode, entries, results, counted, errors,
                           visited, finished>>
            /\ UNCHANGED fileVars
       ELSE \E text \in TextsAfter(entries[index], results[index].ends,
                                   results[index].new) :
               NextPath(results[index].ends = "error",
                        results[index].ends = "written", text)

\* fix_messagef_simple.py, main, lines 152-156: the summary.
MfMainEnd ==
    /\ script = "messagef" /\ pc = "main" /\ ~finished
    /\ index > Len(entries)
    /\ finished' = TRUE
    /\ UNCHANGED <<script, mode, entries, results, index, counted, errors,
                   visited>>
    /\ UNCHANGED fileVars

BatchNext ==
    \/ ZlMainArg \/ ZlMainListed \/ ZlMainEnd
    \/ MfMainFile \/ MfMainEnd

\* main is sequential code: it keeps running until it returns.
BatchSpec == BatchInit /\ [][BatchNext]_vars /\ WF_vars(BatchNext)

(***************************************************************************)
(* The properties of the rewrite, stated over a run that has just          *)
(* transformed the content it read (pc = "rewritten": original is the text *)
(* read, content the text produced).                                       *)
(***************************************************************************)
Rewritten(sc) == script = sc /\ pc = "rewritten"

\* The values of the field setters of the files, in the order of the text.
FieldValueNames == {"u", "n", "err", "d", "r"}
FieldValues(text) == SelectSeq(text, LAMBDA t : t \in FieldValueNames)

RECURSIVE IsSubsequence(_, _)
IsSubsequence(a, b) ==
    IF a = <<>> THEN TRUE
    ELSE IF b = <<>> THEN FALSE
    ELSE IF Head(a) = Head(b) THEN IsSubsequence(Tail(a), Tail(b))
    ELSE IsSubsequence(a, Tail(b))

\* The segments whose method is not in the mapping table of the script.
UnknownSegs(sc) == IF sc = "zerolog" THEN {SegDur, SegFloat} ELSE {SegFloat}

\* The split of an argument text at the commas that lie at nesting depth
\* zero and outside every string literal.
RECURSIVE SplitTopLevelFrom(_, _, _, _, _, _)
SplitTopLevelFrom(a, i, parts, current, depth, inString) ==
    IF i > Len(a)
    THEN IF current # <<>> THEN Append(parts, Strip(current)) ELSE parts
    ELSE IF a[i] = Q
    THEN SplitTopLevelFrom(a, i + 1, parts, Append(current, a[i]), depth,
                           ~inString)
    ELSE IF inString
    THEN SplitTopLevelFrom(a, i + 1, parts, Append(current, a[i]), depth,
                           inString)
    ELSE IF a[i] \in {"(", "{", "["}
    THEN SplitTopLevelFrom(a, i + 1, parts, Append(current, a[i]), depth + 1,
                           inString)
    ELSE IF a[i] \in {")", "}", "]"}
    THEN SplitTopLevelFrom(a, i + 1, parts, Append(current, a[i]), depth - 1,
                           inString)
    ELSE IF a[i] = "," /\ depth = 0
    THEN SplitTopLevelFrom(a, i + 1, Append(parts, Strip(current)), <<>>,
                           depth, inString)
    ELSE SplitTopLevelFrom(a, i + 1, parts, Append(current, a[i]), depth,
                           inString)
SplitTopLevel(a) == SplitTopLevelFrom(a, 1, <<>>, <<>>, 0, FALSE)

VerbCount(f) == Len(SelectSeq(f, LAMBDA t : t \in Verbs))
ArgCount(a) == Len(SplitTopLevel(a))
EndsWithWrap(f) == f # <<>> /\ f[Len(f)] = "%w"
IsIdentifier(a) == Len(a) = 1 /\ IsWord(a[1])

\* The format without its %w and without the separator (": " or " ") just
\* before it.
WithoutWrap(f) ==
    LET k == FindTok(f, 1, "%w")
        from == IF k >= 3 /\ f[k - 2] = ":" /\ f[k - 1] = SP THEN k - 2
                ELSE IF k >= 2 /\ f[k - 1] = SP THEN k - 1
                ELSE k
    IN  Slice(f, 1, from - 1) \o Slice(f, k + 1, Len(f))

\* .Message("F'").Cause(E)
CauseCall(f, a) ==
    <<"b", ".", "Message", "(", Q>> \o WithoutWrap(f)
        \o <<Q, ")", ".", "Cause", "(">> \o a \o <<")">>

\* .Message(fmt.Sprintf("F'", a1, ..., an)).Cause(E)
SprintfCall(f, a) ==
    LET args == SplitTopLevel(a)
    IN  <<"b", ".", "Message", "(", "fmt", ".", "Sprintf", "(", Q>>
            \o WithoutWrap(f) \o <<Q, ",", SP>>
            \o Join(<<",", SP>>, Slice(args, 1, Len(args) - 1))
            \o <<")", ")", ".", "Cause", "(">> \o args[Len(args)] \o <<")">>

\* The chains of one field that convert_zerolog_to_slog maps, with the pair
\* and the message of the flat call.
MappedSegs == {SegStr, SegInt, SegErr}
MsgTerms == {TermMsg, TermWrapped}
PairOf(seg) ==
    IF seg = SegStr THEN <<Q, "user", Q, ",", SP, "u">>
    ELSE IF seg = SegInt THEN <<Q, "count", Q, ",", SP, "n">>
    ELSE <<Q, "error", Q, ",", SP, "err">>
MessageOf(term) == IF term = TermMsg THEN "login" ELSE "failed"
CallHead(lead, anchor, term) ==
    lead \o Slice(anchor, 1, Len(anchor) - 2) \o <<"(", Q, MessageOf(term), Q>>

\* The text after a statement up to the next chain.
PlainPart(follow) == IF follow = LaterStatement THEN LaterPlain ELSE follow

\* C1: a second pass of convert_zerolog_to_slog over its own output, and of
\* the content transformation of fix_messagef_in_file over its own output,
\* changes nothing.
Idempotence ==
    /\ Rewritten("zerolog") => convert_zerolog_to_slog(content) = content
    /\ Rewritten("messagef") => fix_messagef(content) = content

\* C2: the pairs of the flat call that a chain rewriter produces come in the
\* source order of the setters of the chain, whatever their types: the
\* values of the output, read from left to right, are met in that order in
\* the text read.
FieldOrderPreserved ==
    (pc = "rewritten" /\ script \in {"zerolog", "pipeline", "pipeline_v2"})
        => IsSubsequence(FieldValues(content), FieldValues(original))

\* C3: a segment whose method is not in the mapping table of the script is
\* still in the text after the rewrite.
UnknownSegmentKept ==
    (pc = "rewritten" /\ script \in {"zerolog", "pipeline_v2"})
        => \A seg \in UnknownSegs(script) :
              Contains(original, seg) => Contains(content, seg)

\* C4: the argument splitter of fix_messagef_in_file splits the argument
\* text of a line only at the commas at nesting depth zero and outside
\* every string literal.
SplitOnlyAtTopLevel ==
    (script = "messagef" /\ pc = "read")
        => LET lines == SplitLines(SimpleCausePass(content))
           IN  \A k \in 1..Len(lines) :
                  MultiVerbLine(lines[k])
                     => SplitArgs(Strip(MessagefSearch(lines[k]).args))
                          = SplitTopLevel(Strip(MessagefSearch(lines[k]).args))

\* C5: a chain without its terminator is left as it is, and so is the text
\* that follows it up to the next chain: the lines after it are not taken
\* into the statement.
MissingTerminatorUntouched ==
    (pc = "rewritten" /\ script \in {"zerolog", "pipeline_v2"})
        => \A lead \in Leads, anchor \in Anchors, follow \in Follows :
             \A segs \in SegLists \ {<<>>} :
                original = lead \o anchor \o Concat(segs) \o follow
                   => LitAt(content, 1, lead \o anchor \o Concat(segs)
                                            \o PlainPart(follow))

\* C6: a Messagef call whose number of format verbs differs from its number
\* of arguments is left unchanged.
MalformedFormatUnchanged ==
    Rewritten("messagef")
        => \A f \in Formats, a \in ArgLists, h \in Headers, ctx \in Contexts :
              (/\ VerbCount(f) # ArgCount(a)
               /\ original = h \o LineOf(ctx, MessagefCall(f, a)) \o <<NL>>)
                 => content = original

MultiVerbDecomposition ==
    Rewritten("messagef")
        => \A f \in Formats, a \in ArgLists, h \in Headers, ctx \in Contexts :
              (/\ VerbCount(f) >= 2
               /\ EndsWithWrap(f)
               /\ ArgCount(a) = VerbCount(f)
               /\ original = h \o LineOf(ctx, MessagefCall(f, a)) \o <<NL>>)
                 => content = h \o LineOf(ctx, SprintfCall(f, a)) \o <<NL>>

\* C10: a driver opens the file for writing only when the content it
\* produced differs from the content it read.
WriteOnlyOnChange == opened => content # original

\* The entries main hands to the processing of a file, and the positions
\* of these entries in order.
Processed(e) ==
    IF mode = "args" THEN TRUE
    ELSE IF mode = "list" THEN e.name # ""
    ELSE e.name = "a.go"
RECURSIVE ProcessedFrom(_)
ProcessedFrom(i) ==
    IF i > Len(entries) THEN <<>>
    ELSE IF Processed(entries[i]) THEN <<i>> \o ProcessedFrom(i + 1)
    ELSE ProcessedFrom(i + 1)

\* The processing of entry e raises an error.
Raises(e) ==
    IF script = "zerolog" THEN ProcessFileEnds(e) = "error"
    ELSE FixFileEnds(e) = "error"

\* C11: when the processing of a file raises an error, the error is
\* printed, the file is not counted as changed and the loop goes on with
\* the next path; main reaches its end, having processed every path of the
\* list in order.
BatchSurvivesFailures ==
    /\ [][(/\ index <= Len(entries)
           /\ Processed(entries[index])
           /\ Raises(entries[index]))
            => (/\ errors' = Append(errors, index)
                /\ counted' = counted
                /\ visited' = Append(visited, index)
                /\ index' = index + 1)]_vars
    /\ <>(finished /\ visited = ProcessedFrom(1))

\* The first file failed, the second one was processed and counted, and
\* main has returned.
LaterFileProcessedAfterFailure ==
    /\ finished
    /\ errors = <<1>>
    /\ visited = <<1, 2>>
    /\ counted = 1

\* The text after the first statement once the later chain in it is
\* replaced by its flat call; the text outside that chain is kept.
LaterFlat ==
    <<TAB, "s", ".", "logger", ".", "Debug", "(", Q, "later", Q, ")", NL>>
FrameAfter(follow) ==
    IF follow = LaterStatement THEN LaterPlain \o LaterFlat ELSE follow
StartsWith(text, head) ==
    Len(text) >= Len(head) /\ Slice(text, 1, Len(head)) = head
EndsWith(text, tail) ==
    /\ Len(text) >= Len(tail)
    /\ Slice(text, Len(text) - Len(tail) + 1, Len(text)) = tail

\* C12: the output of fix_pipeline_logging_v2 and of convert_zerolog_to_slog
\* is the input with each matched chain, from its anchor to the ")" of its
\* terminator, replaced by the flat call: the indentation before the anchor
\* is still at the start of the output, and the text after the terminator,
\* with the later chain in it replaced in the same way, is still at its end.
SurroundingTextPreserved ==
    (pc = "rewritten" /\ script \in {"zerolog", "pipeline_v2"})
        => \A lead \in Leads, anchor \in Anchors, segs \in SegLists,
              term \in MsgTerms, follow \in Follows :
              original = lead \o anchor \o Concat(segs) \o term \o follow
                  => /\ StartsWith(content, lead)
                     /\ EndsWith(content, FrameAfter(follow))

\* The segments convert_zerolog_to_slog recognizes (Str, Int, Bool,
\* Interface, Any, Err), and the number of pairs of a flat call: a pair is
\* written as key, ", " and value, and the pairs are set apart by a "," at
\* the end of a line.
RecognizedSegs == {SegStr, SegInt, SegErr, SegConstKey, SegEmptyKey}
RecognizedCount(segs) ==
    Cardinality({i \in DOMAIN segs : segs[i] \in RecognizedSegs})
RECURSIVE PairCount(_, _)
PairCount(text, i) ==
    IF i > Len(text) THEN 0
    ELSE IF text[i] = "," /\ At(text, i + 1) = SP
    THEN 1 + PairCount(text, i + 2)
    ELSE PairCount(text, i + 1)

\* C13: for a chain that convert_zerolog_to_slog matches, every segment
\* whose method is Str, Int, Bool, Interface, Any or Err gives one pair of
\* the flat call, also when its key is a named constant or an empty
\* literal: the flat call has as many pairs as the chain has recognized
\* segments.
NoRecognizedFieldLost ==
    Rewritten("zerolog")
        => \A lead \in Leads, anchor \in Anchors, segs \in KeySegLists :
              original = lead \o anchor \o Concat(segs) \o TermMsg \o <<NL>>
                  => /\ ~Contains(content, <<".", "Msg">>)
                     /\ PairCount(content, 1) = RecognizedCount(segs)
====
